---------------------------- MODULE Spec2Model ----------------------------
(***************************************************************************)
(* The I/O tracing wrappers of env/file_system_tracer.cc.                  *)
(*                                                                         *)
(* Every wrapper method has the same five steps: read the clock, call the  *)
(* target, read the clock again, build IOTraceRecord(s) and hand them to   *)
(* IOTracer::WriteIOOp, return what the target returned.  The steps are    *)
(* separate actions so that calls of several threads interleave.           *)
(***************************************************************************)
EXTENDS Integers, Sequences, FiniteSets

(***************************************************************************)
(* Bounds and input domains.                                               *)
(***************************************************************************)
\* calls a behaviour may start
MaxCalls == 2
\* largest num_reqs of a MultiRead
MaxReqs == 2

Threads == {"t1", "t2"}
\* the values a clock reading takes; a later reading may be the smaller one
Times == {0, 1}
Names == {"a", "b"}
Offsets == {0, 100}
Lens == {5, 10}
Sizes == {512, 1024}

\* uint64_t arithmetic is modulo 2^64.  TLC's integers are 32 bits wide, so the
\* model keeps the modular structure with a 16-bit word; every timestamp of
\* Times lies far below either modulus.
WordMod == 2^16

\* IOStatus codes a target may return.
Codes == {"kOk", "kNotFound", "kIOError"}
\* the "status" of a call that returns no IOStatus (FSWritableFile::GetFileSize)
NoStatus == "none"

\* the i-th sub-request a caller puts in a MultiRead batch (1-based)
ReqPool == << [offset |-> 0, len |-> 10], [offset |-> 100, len |-> 20],
              [offset |-> 200, len |-> 30], [offset |-> 300, len |-> 40] >>

(***************************************************************************)
(* State.                                                                  *)
(***************************************************************************)
VARIABLES
    pc,          \* [Threads -> position in the wrapper method]
    op,          \* the wrapper method the thread is in
    args,        \* the caller's arguments
    start_time,  \* local start_time
    s,           \* local s: the IOStatus the target returned
    result,      \* result->size() of the caller's Slice
    file_size,   \* *file_size (FileSystem) or local file_size (writable file)
    reqs,        \* the caller's FSReadRequest array of a MultiRead
    end_time,    \* local end_time
    i,           \* MultiRead's loop index
    ret,         \* the value the wrapper returned
    sink_up,     \* the sink works: FALSE when every WriteIOOp fails in the sink
    tgt,         \* per thread: the invocations the target received in this call
    events,      \* per thread: the events of this call in the order they happened
    sink,        \* the records WriteIOOp received from the calls in flight
    n_calls,     \* calls started
    n_records,   \* records WriteIOOp received so far
    n_single,    \* non-batch calls that returned
    n_batch      \* sum of num_reqs over the MultiRead calls that returned

locals == << op, args, start_time, s, result, file_size, reqs, end_time, i, ret >>
counters == << n_calls, n_records, n_single, n_batch >>
vars == << pc, locals, tgt, events, sink, sink_up, counters >>

NoArgs == [fname |-> "", n |-> 0, offset |-> 0, size |-> 0, num_reqs |-> 0]

\* sub(a, b): a - b on uint64_t
Sub64(a, b) == (a - b) % WordMod

\* IOStatus::ToString()
ToString(code) ==
    CASE code = "kOk"       -> "OK"
      [] code = "kNotFound" -> "NotFound: "
      [] code = "kIOError"  -> "IO error: "

(***************************************************************************)
(* IOTraceRecord and its constructors.  The fifth positional argument is   *)
(* io_status in every overload; a sixth argument that is a string is       *)
(* file_name, one that is an integer is len.                               *)
(***************************************************************************)
IOTraceRecord(ts, type, func, latency, io_status) ==
    [access_timestamp |-> ts, trace_type |-> type, file_operation |-> func,
     latency |-> latency, io_status |-> io_status,
     file_name |-> "", len |-> 0, offset |-> 0, file_size |-> 0]

IOTraceRecord_Name(ts, type, func, latency, io_status, file_name) ==
    [IOTraceRecord(ts, type, func, latency, io_status)
        EXCEPT !.file_name = file_name]

IOTraceRecord_NameSize(ts, type, func, latency, io_status, file_name, fsize) ==
    [IOTraceRecord(ts, type, func, latency, io_status)
        EXCEPT !.file_name = file_name, !.file_size = fsize]

IOTraceRecord_Len(ts, type, func, latency, io_status, len) ==
    [IOTraceRecord(ts, type, func, latency, io_status) EXCEPT !.len = len]

IOTraceRecord_LenOffset(ts, type, func, latency, io_status, len, offset) ==
    [IOTraceRecord(ts, type, func, latency, io_status)
        EXCEPT !.len = len, !.offset = offset]

(***************************************************************************)
(* The wrapper methods.                                                    *)
(***************************************************************************)
FSOps == {"FileSystem::NewWritableFile", "FileSystem::NewDirectory",
          "FileSystem::GetChildren", "FileSystem::DeleteFile",
          "FileSystem::CreateDir", "FileSystem::CreateDirIfMissing",
          "FileSystem::DeleteDir", "FileSystem::GetFileSize"}
SeqOps == {"FSSequentialFile::Read", "FSSequentialFile::InvalidateCache",
           "FSSequentialFile::PositionedRead"}
RAOps == {"FSRandomAccessFile::Read", "FSRandomAccessFile::MultiRead",
          "FSRandomAccessFile::Prefetch", "FSRandomAccessFile::InvalidateCache"}
WOps == {"FSWritableFile::Append", "FSWritableFile::PositionedAppend",
         "FSWritableFile::Truncate", "FSWritableFile::Close",
         "FSWritableFile::GetFileSize", "FSWritableFile::InvalidateCache"}
RWOps == {"FSRandomRWFile::Write", "FSRandomRWFile::Read"}
Ops == FSOps \cup SeqOps \cup RAOps \cup WOps \cup RWOps

\* the methods whose target fills the caller's Slice* result
ReadOps == {"FSSequentialFile::Read", "FSSequentialFile::PositionedRead",
            "FSRandomAccessFile::Read", "FSRandomRWFile::Read"}

Latency(t) == Sub64(end_time[t], start_time[t])

(***************************************************************************)
(* The record each method builds.  The third constructor argument is       *)
(* __func__, the method's unqualified name.                                *)
(***************************************************************************)
NewWritableFile_record(t) ==
    IOTraceRecord_Name(end_time[t], "kIOFileName", "NewWritableFile",
                       Latency(t), ToString(s[t]), args[t].fname)

NewDirectory_record(t) ==
    IOTraceRecord_Name(end_time[t], "kIOFileName", "NewDirectory",
                       Latency(t), ToString(s[t]), args[t].fname)

GetChildren_record(t) ==
    IOTraceRecord_Name(end_time[t], "kIOFileName", "GetChildren",
                       Latency(t), ToString(s[t]), args[t].fname)

DeleteFile_record(t) ==
    IOTraceRecord_Name(end_time[t], "kIOFileName", "DeleteFile",
                       Latency(t), ToString(s[t]), args[t].fname)

CreateDir_record(t) ==
    IOTraceRecord_Name(end_time[t], "kIOFileName", "CreateDir",
                       Latency(t), ToString(s[t]), args[t].fname)

CreateDirIfMissing_record(t) ==
    IOTraceRecord_Name(end_time[t], "kIOFileName", "CreateDirIfMissing",
                       Latency(t), ToString(s[t]), args[t].fname)

DeleteDir_record(t) ==
    IOTraceRecord_Name(end_time[t], "kIOFileName", "DeleteDir",
                       Latency(t), ToString(s[t]), args[t].fname)

FS_GetFileSize_record(t) ==
    IOTraceRecord_NameSize(end_time[t], "kIOFileNameAndFileSize", "GetFileSize",
                           Latency(t), ToString(s[t]), args[t].fname,
                           file_size[t])

\* faulty variant: the sequential Read logs the requested n, as the random-access Read does
Seq_Read_record_requested(t) ==
    IOTraceRecord_Len(end_time[t], "kIOLen", "Read",
                      Latency(t), ToString(s[t]), args[t].n)

Seq_Read_record(t) ==
    IOTraceRecord_Len(end_time[t], "kIOLen", "Read",
                      Latency(t), ToString(s[t]), result[t])

Seq_InvalidateCache_record(t) ==
    IOTraceRecord_LenOffset(end_time[t], "kIOLenAndOffset", "InvalidateCache",
                            Latency(t), ToString(s[t]), args[t].n,
                            args[t].offset)

Seq_PositionedRead_record(t) ==
    IOTraceRecord_LenOffset(end_time[t], "kIOLenAndOffset", "PositionedRead",
                            Latency(t), ToString(s[t]), result[t],
                            args[t].offset)

RA_Read_record(t) ==
    IOTraceRecord_LenOffset(end_time[t], "kIOLenAndOffset", "Read",
                            Latency(t), ToString(s[t]), args[t].n,
                            args[t].offset)

\* faulty variant: every record of the batch gets the overall status s
MultiRead_record_overall(t, k) ==
    IOTraceRecord_LenOffset(end_time[t], "kIOLenAndOffset", "MultiRead",
                            Latency(t), ToString(s[t]),
                            reqs[t][k + 1].len, reqs[t][k + 1].offset)

\* the record of reqs[k]; k is the loop index i, counted from 0
MultiRead_record(t, k) ==
    IOTraceRecord_LenOffset(end_time[t], "kIOLenAndOffset", "MultiRead",
                            Latency(t), ToString(reqs[t][k + 1].status),
                            reqs[t][k + 1].len, reqs[t][k + 1].offset)

Prefetch_record(t) ==
    IOTraceRecord_LenOffset(end_time[t], "kIOLenAndOffset", "Prefetch",
                            Latency(t), ToString(s[t]), args[t].n,
                            args[t].offset)

RA_InvalidateCache_record(t) ==
    IOTraceRecord_LenOffset(end_time[t], "kIOLenAndOffset", "InvalidateCache",
                            Latency(t), ToString(s[t]), args[t].n,
                            args[t].offset)

Append_record(t) ==
    IOTraceRecord_Len(end_time[t], "kIOLen", "Append",
                      Latency(t), ToString(s[t]), args[t].n)

PositionedAppend_record(t) ==
    IOTraceRecord_LenOffset(end_time[t], "kIOLenAndOffset", "PositionedAppend",
                            Latency(t), ToString(s[t]), args[t].n,
                            args[t].offset)

Truncate_record(t) ==
    IOTraceRecord_Len(end_time[t], "kIOLen", "Truncate",
                      Latency(t), ToString(s[t]), args[t].size)

Close_record(t) ==
    IOTraceRecord(end_time[t], "kIOGeneral", "Close", Latency(t),
                  ToString(s[t]))

\* six arguments, the fifth "" and the sixth an integer: the (io_status, len)
\* overload is the one that takes them
W_GetFileSize_record(t) ==
    IOTraceRecord_Len(end_time[t], "kIOFileNameAndFileSize", "GetFileSize",
                      Latency(t), "", file_size[t])

W_InvalidateCache_record(t) ==
    IOTraceRecord_LenOffset(end_time[t], "kIOLenAndOffset", "InvalidateCache",
                            Latency(t), ToString(s[t]), args[t].n,
                            args[t].offset)

Write_record(t) ==
    IOTraceRecord_LenOffset(end_time[t], "kIOLenAndOffset", "Write",
                            Latency(t), ToString(s[t]), args[t].n,
                            args[t].offset)

RW_Read_record(t) ==
    IOTraceRecord_LenOffset(end_time[t], "kIOLenAndOffset", "Read",
                            Latency(t), ToString(s[t]), args[t].n,
                            args[t].offset)

\* io_record of the method the thread is in (MultiRead builds its own in a loop)
io_record(t) ==
    CASE op[t] = "FileSystem::NewWritableFile"       -> NewWritableFile_record(t)
      [] op[t] = "FileSystem::NewDirectory"          -> NewDirectory_record(t)
      [] op[t] = "FileSystem::GetChildren"           -> GetChildren_record(t)
      [] op[t] = "FileSystem::DeleteFile"            -> DeleteFile_record(t)
      [] op[t] = "FileSystem::CreateDir"             -> CreateDir_record(t)
      [] op[t] = "FileSystem::CreateDirIfMissing"    -> CreateDirIfMissing_record(t)
      [] op[t] = "FileSystem::DeleteDir"             -> DeleteDir_record(t)
      [] op[t] = "FileSystem::GetFileSize"           -> FS_GetFileSize_record(t)
      [] op[t] = "FSSequentialFile::Read"            -> Seq_Read_record(t)
      [] op[t] = "FSSequentialFile::InvalidateCache" -> Seq_InvalidateCache_record(t)
      [] op[t] = "FSSequentialFile::PositionedRead"  -> Seq_PositionedRead_record(t)
      [] op[t] = "FSRandomAccessFile::Read"          -> RA_Read_record(t)
      [] op[t] = "FSRandomAccessFile::Prefetch"      -> Prefetch_record(t)
      [] op[t] = "FSRandomAccessFile::InvalidateCache" -> RA_InvalidateCache_record(t)
      [] op[t] = "FSWritableFile::Append"            -> Append_record(t)
      [] op[t] = "FSWritableFile::PositionedAppend"  -> PositionedAppend_record(t)
      [] op[t] = "FSWritableFile::Truncate"          -> Truncate_record(t)
      [] op[t] = "FSWritableFile::Close"             -> Close_record(t)
      [] op[t] = "FSWritableFile::GetFileSize"       -> W_GetFileSize_record(t)
      [] op[t] = "FSWritableFile::InvalidateCache"   -> W_InvalidateCache_record(t)
      [] op[t] = "FSRandomRWFile::Write"             -> Write_record(t)
      [] op[t] = "FSRandomRWFile::Read"              -> RW_Read_record(t)

(***************************************************************************)
(* Init: no call in flight, nothing delivered; the sink works or is broken. *)
(***************************************************************************)
NoRet == [status |-> NoStatus, size |-> 0]

Init ==
    /\ pc = [t \in Threads |-> "idle"]
    /\ op = [t \in Threads |-> "none"]
    /\ args = [t \in Threads |-> NoArgs]
    /\ start_time = [t \in Threads |-> 0]
    /\ s = [t \in Threads |-> NoStatus]
    /\ result = [t \in Threads |-> 0]
    /\ file_size = [t \in Threads |-> 0]
    /\ reqs = [t \in Threads |-> << >>]
    /\ end_time = [t \in Threads |-> 0]
    /\ i = [t \in Threads |-> 0]
    /\ ret = [t \in Threads |-> NoRet]
    /\ tgt = [t \in Threads |-> << >>]
    /\ events = [t \in Threads |-> << >>]
    /\ sink_up \in BOOLEAN
    /\ sink = << >>
    /\ n_calls = 0
    /\ n_records = 0
    /\ n_single = 0
    /\ n_batch = 0

(***************************************************************************)
(* Step 1 of every method: the caller enters with its arguments and the    *)
(* method reads start_time.  A default-constructed FSReadRequest has       *)
(* status OK.                                                              *)
(***************************************************************************)
Enter(t, o, a) ==
    /\ pc[t] = "idle"
    /\ n_calls < MaxCalls
    /\ \E now \in Times : start_time' = [start_time EXCEPT ![t] = now]
    /\ pc' = [pc EXCEPT ![t] = "started"]
    /\ op' = [op EXCEPT ![t] = o]
    /\ args' = [args EXCEPT ![t] = a]
    /\ reqs' = [reqs EXCEPT ![t] =
                   [k \in 1 .. a.num_reqs |->
                       [offset |-> ReqPool[k].offset, len |-> ReqPool[k].len,
                        status |-> "kOk"]]]
    /\ events' = [events EXCEPT ![t] = << "start" >>]
    /\ n_calls' = n_calls + 1
    /\ UNCHANGED << s, result, file_size, end_time, i, ret, tgt, sink,
                    sink_up, n_records, n_single, n_batch >>

FS_NewWritableFile(t) ==
    \E f \in Names :
        Enter(t, "FileSystem::NewWritableFile", [NoArgs EXCEPT !.fname = f])

FS_NewDirectory(t) ==
    \E f \in Names :
        Enter(t, "FileSystem::NewDirectory", [NoArgs EXCEPT !.fname = f])

FS_GetChildren(t) ==
    \E f \in Names :
        Enter(t, "FileSystem::GetChildren", [NoArgs EXCEPT !.fname = f])

FS_DeleteFile(t) ==
    \E f \in Names :
        Enter(t, "FileSystem::DeleteFile", [NoArgs EXCEPT !.fname = f])

FS_CreateDir(t) ==
    \E f \in Names :
        Enter(t, "FileSystem::CreateDir", [NoArgs EXCEPT !.fname = f])

FS_CreateDirIfMissing(t) ==
    \E f \in Names :
        Enter(t, "FileSystem::CreateDirIfMissing", [NoArgs EXCEPT !.fname = f])

FS_DeleteDir(t) ==
    \E f \in Names :
        Enter(t, "FileSystem::DeleteDir", [NoArgs EXCEPT !.fname = f])

FS_GetFileSize(t) ==
    \E f \in Names :
        Enter(t, "FileSystem::GetFileSize", [NoArgs EXCEPT !.fname = f])

Seq_Read(t) ==
    \E n \in Lens :
        Enter(t, "FSSequentialFile::Read", [NoArgs EXCEPT !.n = n])

Seq_InvalidateCache(t) ==
    \E o \in Offsets, n \in Lens :
        Enter(t, "FSSequentialFile::InvalidateCache",
              [NoArgs EXCEPT !.offset = o, !.n = n])

Seq_PositionedRead(t) ==
    \E o \in Offsets, n \in Lens :
        Enter(t, "FSSequentialFile::PositionedRead",
              [NoArgs EXCEPT !.offset = o, !.n = n])

RA_Read(t) ==
    \E o \in Offsets, n \in Lens :
        Enter(t, "FSRandomAccessFile::Read",
              [NoArgs EXCEPT !.offset = o, !.n = n])

RA_MultiRead(t) ==
    \E num \in 0 .. MaxReqs :
        Enter(t, "FSRandomAccessFile::MultiRead",
              [NoArgs EXCEPT !.num_reqs = num])

RA_Prefetch(t) ==
    \E o \in Offsets, n \in Lens :
        Enter(t, "FSRandomAccessFile::Prefetch",
              [NoArgs EXCEPT !.offset = o, !.n = n])

RA_InvalidateCache(t) ==
    \E o \in Offsets, n \in Lens :
        Enter(t, "FSRandomAccessFile::InvalidateCache",
              [NoArgs EXCEPT !.offset = o, !.n = n])

W_Append(t) ==
    \E n \in Lens :
        Enter(t, "FSWritableFile::Append", [NoArgs EXCEPT !.n = n])

W_PositionedAppend(t) ==
    \E o \in Offsets, n \in Lens :
        Enter(t, "FSWritableFile::PositionedAppend",
              [NoArgs EXCEPT !.offset = o, !.n = n])

W_Truncate(t) ==
    \E z \in Sizes :
        Enter(t, "FSWritableFile::Truncate", [NoArgs EXCEPT !.size = z])

W_Close(t) ==
    Enter(t, "FSWritableFile::Close", NoArgs)

W_GetFileSize(t) ==
    Enter(t, "FSWritableFile::GetFileSize", NoArgs)

W_InvalidateCache(t) ==
    \E o \in Offsets, n \in Lens :
        Enter(t, "FSWritableFile::InvalidateCache",
              [NoArgs EXCEPT !.offset = o, !.n = n])

RW_Write(t) ==
    \E o \in Offsets, n \in Lens :
        Enter(t, "FSRandomRWFile::Write",
              [NoArgs EXCEPT !.offset = o, !.n = n])

RW_Read(t) ==
    \E o \in Offsets, n \in Lens :
        Enter(t, "FSRandomRWFile::Read",
              [NoArgs EXCEPT !.offset = o, !.n = n])

(***************************************************************************)
(* Step 2: target()->Method(the caller's arguments).  The target is an     *)
(* external collaborator: it answers with any status and any output.       *)
(***************************************************************************)
\* the statuses a target leaves in a batch of num sub-requests: all of them
\* succeed, or one of them fails, with any failure, and the others succeed
ReqStatuses(num) ==
    {f \in [1 .. num -> Codes] :
        \A j, k \in 1 .. num : (f[j] # "kOk" /\ f[k] # "kOk") => j = k}

TargetResponses(o, a) ==
    [status   : IF o = "FSWritableFile::GetFileSize" THEN {NoStatus} ELSE Codes,
     result   : IF o \in ReadOps
                THEN {r \in {0} \cup Lens : r <= a.n} ELSE {0},
     size     : IF o \in {"FileSystem::GetFileSize", "FSWritableFile::GetFileSize"}
                THEN Sizes ELSE {0},
     req_stat : ReqStatuses(a.num_reqs)]

\* what the method passes to the target: its own name and its own arguments
TargetInvocation(t) == [op |-> op[t], args |-> args[t]]

\* what the target hands back as the call's value: an IOStatus, or a size
Returned(o, r) ==
    IF o = "FSWritableFile::GetFileSize"
    THEN [status |-> NoStatus, size |-> r.size]
    ELSE [status |-> r.status, size |-> 0]

\* faulty variant: a target call that failed is made a second time
CallTarget_retry(t) ==
    /\ pc[t] = "started"
    /\ Len(tgt[t]) < 2
    /\ \E r \in TargetResponses(op[t], args[t]) :
          /\ s' = [s EXCEPT ![t] = r.status]
          /\ result' = [result EXCEPT ![t] = r.result]
          /\ file_size' = [file_size EXCEPT ![t] = r.size]
          /\ reqs' = [reqs EXCEPT ![t] =
                         [k \in 1 .. Len(reqs[t]) |->
                             [reqs[t][k] EXCEPT !.status = r.req_stat[k]]]]
          /\ tgt' = [tgt EXCEPT ![t] =
                        Append(@, [call |-> TargetInvocation(t),
                                   returned |-> Returned(op[t], r),
                                   result |-> r.result])]
          /\ pc' = [pc EXCEPT ![t] =
                       IF r.status \in {"kNotFound", "kIOError"} /\ Len(tgt[t]) = 0
                       THEN "started" ELSE "called"]
    /\ events' = [events EXCEPT ![t] = Append(@, "target")]
    /\ UNCHANGED << op, args, start_time, end_time, i, ret, sink, sink_up,
                    counters >>

CallTarget(t) ==
    /\ pc[t] = "started"
    /\ \E r \in TargetResponses(op[t], args[t]) :
          /\ s' = [s EXCEPT ![t] = r.status]
          /\ result' = [result EXCEPT ![t] = r.result]
          /\ file_size' = [file_size EXCEPT ![t] = r.size]
          /\ reqs' = [reqs EXCEPT ![t] =
                         [k \in 1 .. Len(reqs[t]) |->
                             [reqs[t][k] EXCEPT !.status = r.req_stat[k]]]]
          /\ tgt' = [tgt EXCEPT ![t] =
                        Append(@, [call |-> TargetInvocation(t),
                                   returned |-> Returned(op[t], r),
                                   result |-> r.result])]
    /\ pc' = [pc EXCEPT ![t] = "called"]
    /\ events' = [events EXCEPT ![t] = Append(@, "target")]
    /\ UNCHANGED << op, args, start_time, end_time, i, ret, sink, sink_up,
                    counters >>

(***************************************************************************)
(* Step 3: uint64_t end_time = Timestamp().  system_clock is the wall      *)
(* clock: the reading is any value, also one below start_time.             *)
(***************************************************************************)
ReadEndTime(t) ==
    /\ pc[t] = "called"
    /\ \E now \in Times : end_time' = [end_time EXCEPT ![t] = now]
    /\ pc' = [pc EXCEPT ![t] = "timed"]
    /\ events' = [events EXCEPT ![t] = Append(@, "end")]
    /\ UNCHANGED << op, args, start_time, s, result, file_size, reqs, i, ret,
                    tgt, sink, sink_up, counters >>

(***************************************************************************)
(* Step 4: io_tracer_->WriteIOOp(io_record).  The sink is handed the       *)
(* record and succeeds or fails (ok |-> sink_up); the statement drops      *)
(* whatever WriteIOOp returns and goes on.                                 *)
(***************************************************************************)
Deliver(t, rec) ==
    /\ sink' = Append(sink, [by |-> t, rec |-> rec, ok |-> sink_up])
    /\ UNCHANGED sink_up
    /\ n_records' = n_records + 1
    /\ events' = [events EXCEPT ![t] = Append(@, "sink")]

\* faulty variant: a call the target failed leaves no record
WriteIOOp_onSuccessOnly(t) ==
    /\ pc[t] = "timed"
    /\ op[t] # "FSRandomAccessFile::MultiRead"
    /\ IF s[t] \in {"kNotFound", "kIOError"}
       THEN UNCHANGED << sink, sink_up, n_records, events >>
       ELSE Deliver(t, io_record(t))
    /\ pc' = [pc EXCEPT ![t] = "emitted"]
    /\ UNCHANGED << locals, tgt, n_calls, n_single, n_batch >>

\* faulty variant: io_record is one object all threads share, so a thread may hand over
\* the record another thread has just built
WriteIOOp_sharedRecord(t) ==
    /\ pc[t] = "timed"
    /\ op[t] # "FSRandomAccessFile::MultiRead"
    /\ \E u \in Threads :
          /\ pc[u] \in {"timed", "emitted"}
          /\ op[u] # "FSRandomAccessFile::MultiRead"
          /\ Deliver(t, io_record(u))
    /\ pc' = [pc EXCEPT ![t] = "emitted"]
    /\ UNCHANGED << locals, tgt, n_calls, n_single, n_batch >>

WriteIOOp(t) ==
    /\ pc[t] = "timed"
    /\ op[t] # "FSRandomAccessFile::MultiRead"
    /\ Deliver(t, io_record(t))
    /\ pc' = [pc EXCEPT ![t] = "emitted"]
    /\ UNCHANGED << locals, tgt, n_calls, n_single, n_batch >>

\* the body of MultiRead's loop: for (size_t i = 0; i < num_reqs; i++)
MultiRead_WriteIOOp(t) ==
    /\ pc[t] = "timed"
    /\ op[t] = "FSRandomAccessFile::MultiRead"
    /\ i[t] < args[t].num_reqs
    /\ Deliver(t, MultiRead_record(t, i[t]))
    /\ i' = [i EXCEPT ![t] = @ + 1]
    /\ UNCHANGED << pc, op, args, start_time, s, result, file_size, reqs,
                    end_time, ret, tgt, n_calls, n_single, n_batch >>

\* the sink breaks down or recovers, at any moment
SinkChanges ==
    /\ sink_up' = ~sink_up
    /\ UNCHANGED << pc, locals, tgt, events, sink, counters >>

(***************************************************************************)
(* Step 5: return s (return file_size in the writable file's GetFileSize). *)
(***************************************************************************)
\* faulty variant: a file that is not there is no error to the caller
ReturnValue_swallowNotFound(t) ==
    IF op[t] = "FSWritableFile::GetFileSize"
    THEN [status |-> NoStatus, size |-> file_size[t]]
    ELSE [status |-> IF s[t] = "kNotFound" THEN "kOk" ELSE s[t], size |-> 0]

\* faulty variant: a delivery the sink failed turns the call into an I/O error
ReturnValue_sinkError(t) ==
    IF \E k \in 1 .. Len(sink) : sink[k].by = t /\ ~sink[k].ok
    THEN [status |-> "kIOError", size |-> 0]
    ELSE IF op[t] = "FSWritableFile::GetFileSize"
         THEN [status |-> NoStatus, size |-> file_size[t]]
         ELSE [status |-> s[t], size |-> 0]

ReturnValue(t) ==
    IF op[t] = "FSWritableFile::GetFileSize"
    THEN [status |-> NoStatus, size |-> file_size[t]]
    ELSE [status |-> s[t], size |-> 0]

Return(t) ==
    /\ \/ pc[t] = "emitted"
       \/ /\ pc[t] = "timed"
          /\ op[t] = "FSRandomAccessFile::MultiRead"
          /\ i[t] = args[t].num_reqs
    /\ ret' = [ret EXCEPT ![t] = ReturnValue(t)]
    /\ pc' = [pc EXCEPT ![t] = "returned"]
    /\ events' = [events EXCEPT ![t] = Append(@, "return")]
    /\ UNCHANGED << op, args, start_time, s, result, file_size, reqs,
                    end_time, i, tgt, sink, sink_up, counters >>

(***************************************************************************)
(* The caller takes the result and goes on.  The frame is gone; of the     *)
(* call's records the model keeps their number, not their content.         *)
(***************************************************************************)
RECURSIVE NotBy(_, _)
NotBy(q, t) ==
    IF q = << >> THEN << >>
    ELSE IF Head(q).by = t THEN NotBy(Tail(q), t)
         ELSE << Head(q) >> \o NotBy(Tail(q), t)

CallerContinue(t) ==
    /\ pc[t] = "returned"
    /\ pc' = [pc EXCEPT ![t] = "idle"]
    /\ op' = [op EXCEPT ![t] = "none"]
    /\ args' = [args EXCEPT ![t] = NoArgs]
    /\ start_time' = [start_time EXCEPT ![t] = 0]
    /\ s' = [s EXCEPT ![t] = NoStatus]
    /\ result' = [result EXCEPT ![t] = 0]
    /\ file_size' = [file_size EXCEPT ![t] = 0]
    /\ reqs' = [reqs EXCEPT ![t] = << >>]
    /\ end_time' = [end_time EXCEPT ![t] = 0]
    /\ i' = [i EXCEPT ![t] = 0]
    /\ ret' = [ret EXCEPT ![t] = NoRet]
    /\ tgt' = [tgt EXCEPT ![t] = << >>]
    /\ events' = [events EXCEPT ![t] = << >>]
    /\ sink' = NotBy(sink, t)
    /\ UNCHANGED sink_up
    /\ IF op[t] = "FSRandomAccessFile::MultiRead"
       THEN /\ n_batch' = n_batch + args[t].num_reqs
            /\ UNCHANGED n_single
       ELSE /\ n_single' = n_single + 1
            /\ UNCHANGED n_batch
    /\ UNCHANGED << n_calls, n_records >>

(***************************************************************************)
(* Spec: one caller, every method, a sink that fails now and then.         *)
(***************************************************************************)
Callers == {"t1"}

Next ==
    \/ SinkChanges
    \/ \E t \in Callers :
           \/ FS_NewWritableFile(t)
           \/ FS_NewDirectory(t)
           \/ FS_GetChildren(t)
           \/ FS_DeleteFile(t)
           \/ FS_CreateDir(t)
           \/ FS_CreateDirIfMissing(t)
           \/ FS_DeleteDir(t)
           \/ FS_GetFileSize(t)
           \/ Seq_Read(t)
           \/ Seq_InvalidateCache(t)
           \/ Seq_PositionedRead(t)
           \/ RA_Read(t)
           \/ RA_MultiRead(t)
           \/ RA_Prefetch(t)
           \/ RA_InvalidateCache(t)
           \/ W_Append(t)
           \/ W_PositionedAppend(t)
           \/ W_Truncate(t)
           \/ W_Close(t)
           \/ W_GetFileSize(t)
           \/ W_InvalidateCache(t)
           \/ RW_Write(t)
           \/ RW_Read(t)
           \/ CallTarget(t)
           \/ ReadEndTime(t)
           \/ WriteIOOp(t)
           \/ MultiRead_WriteIOOp(t)
           \/ Return(t)
           \/ CallerContinue(t)

Spec == Init /\ [][Next]_vars

(***************************************************************************)
(* SpecConc: two threads in calls at once.  "t1" reads through a           *)
(* random-access file wrapper (Read, MultiRead); both threads append       *)
(* through one writable file wrapper; the two wrappers hold the same sink, *)
(* which works throughout or fails throughout.                             *)
(***************************************************************************)
NextConc ==
    \/ RA_Read("t1")
    \/ RA_MultiRead("t1")
    \/ \E t \in Threads : W_Append(t)
    \/ \E t \in Threads :
          \/ CallTarget(t)
          \/ ReadEndTime(t)
          \/ WriteIOOp(t)
          \/ MultiRead_WriteIOOp(t)
          \/ Return(t)
          \/ CallerContinue(t)

SpecConc == Init /\ [][NextConc]_vars

(***************************************************************************)
(* What the claims speak of.                                               *)
(***************************************************************************)
\* the sink's entries that came from thread t's call, in arrival order
Mine(t) == SelectSeq(sink, LAMBDA e : e.by = t)

IsMultiRead(t) == op[t] = "FSRandomAccessFile::MultiRead"

\* the records a call owes the sink: num_reqs for a batch, one otherwise
Owed(t) == IF IsMultiRead(t) THEN args[t].num_reqs ELSE 1

IsPrefix(a, b) == Len(a) <= Len(b) /\ a = SubSeq(b, 1, Len(a))

Count(q, x) == Cardinality({k \in 1 .. Len(q) : q[k] = x})

StatusStrings == {"OK", "NotFound: ", "IO error: "}

\* the string of status code c, written out for the claims
StringOf(c) ==
    IF c = "kOk" THEN "OK"
    ELSE IF c = "kNotFound" THEN "NotFound: "
    ELSE IF c = "kIOError" THEN "IO error: "
    ELSE "?"

(***************************************************************************)
(* C1  Transparency.  In every call the target is handed the method the    *)
(* caller invoked with the caller's own arguments, and the value the       *)
(* wrapper returns is the status (or size) the target returned, success    *)
(* or failure, whatever calls came before.                                 *)
(***************************************************************************)
C1_Transparency ==
    \A t \in Threads :
        /\ \A k \in 1 .. Len(tgt[t]) :
              /\ tgt[t][k].call.op = op[t]
              /\ tgt[t][k].call.args = args[t]
        /\ pc[t] = "returned" =>
              /\ Len(tgt[t]) = 1
              /\ ret[t] = tgt[t][1].returned

\* a DeleteFile that the target failed with not-found has returned, after an
\* earlier call
C1_Witness ==
    \E t \in Threads :
        /\ pc[t] = "returned"
        /\ op[t] = "FileSystem::DeleteFile"
        /\ tgt[t][1].returned.status = "kNotFound"
        /\ n_single + n_batch > 0

(***************************************************************************)
(* C2  Record count.  The sink has received one record for every non-batch *)
(* call that returned and N records for every MultiRead of N sub-requests  *)
(* that returned (N = 0 included), plus what the calls in flight have      *)
(* delivered so far; a call that has returned delivered exactly what it    *)
(* owed, whether the target succeeded or failed.                           *)
(***************************************************************************)
C2_RecordCount ==
    /\ n_records = n_single + n_batch + Len(sink)
    /\ \A t \in Threads :
          /\ Len(Mine(t)) <= Owed(t)
          /\ pc[t] = "returned" => Len(Mine(t)) = Owed(t)
    /\ (\A t \in Threads : pc[t] = "idle") => n_records = n_single + n_batch

\* a failed non-batch call and a MultiRead of two sub-requests have returned:
\* three records
C2_Witness ==
    /\ \A t \in Threads : pc[t] = "idle"
    /\ n_single = 1
    /\ n_batch = 2
    /\ n_records = 3

(***************************************************************************)
(* C3  Outcome fidelity.  Every record's outcome is the string of the real *)
(* status of its call: of the status returned for a non-batch call, of the *)
(* sub-request's own status for a MultiRead record, and the string of a    *)
(* status at all (the size query succeeded: "OK") for the writable file's  *)
(* GetFileSize.                                                            *)
(***************************************************************************)
C3_OutcomeFidelity ==
    \A t \in Threads :
        \A k \in 1 .. Len(Mine(t)) :
            LET out == Mine(t)[k].rec.io_status IN
            /\ out \in StatusStrings
            /\ IF IsMultiRead(t) THEN out = StringOf(reqs[t][k].status)
               ELSE IF op[t] = "FSWritableFile::GetFileSize" THEN out = "OK"
               ELSE out = StringOf(s[t])

(***************************************************************************)
(* C4  Batch consistency.  The records of a MultiRead arrive in            *)
(* sub-request order: the k-th record carries the k-th sub-request's       *)
(* offset and length as the caller gave them and the string of that        *)
(* sub-request's own status, so a failing sub-request shows in its own     *)
(* record alone; all of them carry the one latency of the bracket around   *)
(* the batch call and the one completion timestamp.                        *)
(***************************************************************************)
C4_BatchConsistency ==
    \A t \in Threads :
        IsMultiRead(t) =>
            /\ Len(Mine(t)) = i[t]
            /\ pc[t] = "returned" => Len(Mine(t)) = args[t].num_reqs
            /\ \A k \in 1 .. Len(Mine(t)) :
                  LET r == Mine(t)[k].rec IN
                  /\ r.offset = ReqPool[k].offset
                  /\ r.len = ReqPool[k].len
                  /\ r.io_status = StringOf(reqs[t][k].status)
                  /\ (r.io_status = "OK") = (reqs[t][k].status = "kOk")
                  /\ r.access_timestamp = end_time[t]
                  /\ r.latency = (end_time[t] - start_time[t]) % WordMod
                  /\ \A j \in 1 .. Len(Mine(t)) :
                        Mine(t)[j].rec.latency = r.latency

\* a MultiRead of two sub-requests has returned; the second failed, the first
\* did not
C4_Witness ==
    \E t \in Threads :
        /\ IsMultiRead(t)
        /\ pc[t] = "returned"
        /\ args[t].num_reqs = 2
        /\ reqs[t][1].status = "kOk"
        /\ reqs[t][2].status = "kIOError"
        /\ Len(Mine(t)) = 2
        /\ Mine(t)[2].rec.io_status = "IO error: "

(***************************************************************************)
(* C5  Latency.  Every record's latency is non-negative and is exactly the *)
(* completion timestamp minus the clock reading taken before the target    *)
(* call, and the record's timestamp is the completion reading.             *)
(***************************************************************************)
C5_LatencyExact ==
    \A t \in Threads :
        \A k \in 1 .. Len(Mine(t)) :
            LET r == Mine(t)[k].rec IN
            /\ r.access_timestamp = end_time[t]
            /\ r.latency >= 0
            /\ r.latency = end_time[t] - start_time[t]

(***************************************************************************)
(* C6  Sink-failure isolation.  When the sink fails the deliveries of a    *)
(* call, the wrapper still returns exactly what the target returned, has   *)
(* called the target once, and has handed each record over once: no error  *)
(* reaches the caller, nothing is repeated, nothing is retried.            *)
(***************************************************************************)
C6_SinkFailureIsolated ==
    \A t \in Threads :
        (\E k \in 1 .. Len(Mine(t)) : ~Mine(t)[k].ok) =>
            /\ Len(tgt[t]) = 1
            /\ Len(Mine(t)) <= Owed(t)
            /\ Count(events[t], "sink") = Len(Mine(t))
            /\ pc[t] = "returned" =>
                  /\ ret[t] = tgt[t][1].returned
                  /\ Len(Mine(t)) = Owed(t)

\* an Append the target accepted has returned OK although the sink failed its
\* record
C6_Witness ==
    \E t \in Threads :
        /\ pc[t] = "returned"
        /\ op[t] = "FSWritableFile::Append"
        /\ Len(Mine(t)) = 1
        /\ ~Mine(t)[1].ok
        /\ tgt[t][1].returned.status = "kOk"
        /\ ret[t].status = "kOk"

(***************************************************************************)
(* C7  Writable-file size query.  The record of the writable file's        *)
(* GetFileSize has category name-and-size, the empty resource name, the    *)
(* returned size in its size field and the operation name GetFileSize,     *)
(* with the outcome in the outcome field as in the file system's           *)
(* GetFileSize record.                                                     *)
(***************************************************************************)
C7_WritableGetFileSizeRecord ==
    \A t \in Threads :
        op[t] = "FSWritableFile::GetFileSize" =>
            \A k \in 1 .. Len(Mine(t)) :
                LET r == Mine(t)[k].rec IN
                /\ r.trace_type = "kIOFileNameAndFileSize"
                /\ r.file_operation = "GetFileSize"
                /\ r.file_name = ""
                /\ r.file_size = file_size[t]
                /\ r.io_status \in StatusStrings

(***************************************************************************)
(* C8  Read length convention.  The record of the sequential file's Read   *)
(* and PositionedRead carries the number of bytes the target put in the    *)
(* result, the record of the random-access file's and the random-RW file's *)
(* Read carries the requested n whatever came back; the positioned ones    *)
(* carry the offset argument.                                              *)
(***************************************************************************)
C8_ReadLength ==
    \A t \in Threads :
        \A k \in 1 .. Len(Mine(t)) :
            LET r == Mine(t)[k].rec IN
            /\ op[t] = "FSSequentialFile::Read" =>
                  r.len = tgt[t][1].result
            /\ op[t] = "FSSequentialFile::PositionedRead" =>
                  r.len = tgt[t][1].result /\ r.offset = args[t].offset
            /\ op[t] \in {"FSRandomAccessFile::Read", "FSRandomRWFile::Read"} =>
                  r.len = args[t].n /\ r.offset = args[t].offset

\* a sequential Read of up to 10 bytes came back with 5: the record says 5
C8_Witness ==
    \E t \in Threads :
        /\ op[t] = "FSSequentialFile::Read"
        /\ args[t].n = 10
        /\ Len(Mine(t)) = 1
        /\ tgt[t][1].result = 5
        /\ Mine(t)[1].rec.len = 5

(***************************************************************************)
(* C9  Per-call event order.  The events of a call are a prefix of: read   *)
(* the start time, call the target, read the end time, deliver each owed   *)
(* record, return.  So the target is called once, also when it fails, no   *)
(* record reaches the sink before the target returned, and all of them     *)
(* have reached it when the wrapper returns.                               *)
(***************************************************************************)
EventsOf(t) ==
    << "start", "target", "end" >> \o [k \in 1 .. Owed(t) |-> "sink"]
        \o << "return" >>

C9_EventOrder ==
    \A t \in Threads :
        pc[t] # "idle" =>
            /\ IsPrefix(events[t], EventsOf(t))
            /\ Len(tgt[t]) = Count(events[t], "target")
            /\ Len(Mine(t)) = Count(events[t], "sink")
            /\ pc[t] = "returned" => events[t] = EventsOf(t)

\* a MultiRead of two sub-requests that the target failed has returned
C9_Witness ==
    \E t \in Threads :
        /\ IsMultiRead(t)
        /\ pc[t] = "returned"
        /\ args[t].num_reqs = 2
        /\ s[t] = "kIOError"
        /\ events[t] = << "start", "target", "end", "sink", "sink", "return" >>

(***************************************************************************)
(* C10  Concurrent calls do not interfere.  Under every interleaving each  *)
(* record in the sink carries its own call's completion timestamp, its own *)
(* call's latency, payload and outcome, each call returns what the target  *)
(* returned to it, and the record count is as in C2.                       *)
(***************************************************************************)
OwnRecord(t, k, r) ==
    /\ r.access_timestamp = end_time[t]
    /\ r.latency = (end_time[t] - start_time[t]) % WordMod
    /\ CASE op[t] = "FSRandomAccessFile::Read" ->
              /\ r.file_operation = "Read"
              /\ r.len = args[t].n
              /\ r.offset = args[t].offset
              /\ r.io_status = StringOf(s[t])
         [] op[t] = "FSRandomAccessFile::MultiRead" ->
              /\ r.file_operation = "MultiRead"
              /\ r.len = ReqPool[k].len
              /\ r.offset = ReqPool[k].offset
              /\ r.io_status = StringOf(reqs[t][k].status)
         [] op[t] = "FSWritableFile::Append" ->
              /\ r.file_operation = "Append"
              /\ r.len = args[t].n
              /\ r.offset = 0
              /\ r.io_status = StringOf(s[t])
         [] OTHER -> TRUE

C10_NoInterference ==
    /\ \A t \in Threads :
          /\ \A k \in 1 .. Len(Mine(t)) : OwnRecord(t, k, Mine(t)[k].rec)
          /\ Len(Mine(t)) <= Owed(t)
          /\ pc[t] = "returned" =>
                /\ Len(tgt[t]) = 1
                /\ tgt[t][1].call.op = op[t]
                /\ ret[t] = tgt[t][1].returned
                /\ Len(Mine(t)) = Owed(t)
    /\ n_records = n_single + n_batch + Len(sink)

\* t2's Append record arrived between the two records of t1's MultiRead, the two
\* calls differ in both clock readings and in their status, and both returned
C10_Witness ==
    /\ Len(sink) = 3
    /\ sink[1].by = "t1"
    /\ sink[2].by = "t2"
    /\ sink[3].by = "t1"
    /\ pc["t1"] = "returned"
    /\ pc["t2"] = "returned"
    /\ start_time["t1"] # start_time["t2"]
    /\ end_time["t1"] # end_time["t2"]
    /\ ret["t1"] # ret["t2"]

=============================================================================
